---- MODULE Spec2Model ----
(***************************************************************************)
(* A model of convert_images_to_pdf.py: the natural sort key, the page     *)
(* compositor's fit-to-box arithmetic and the batch pipeline               *)
(* images_to_pdf (enumerate, sort, compose, group into pages, merge,       *)
(* clean up, optionally delete the sources).                               *)
(*                                                                         *)
(* A character is a one-character string; "sup2" stands for the character  *)
(* U+00B2 (superscript two), for which Python's str.isdigit() is true      *)
(* while the regular expression \d does not match it and int() rejects it. *)
(* A filename is a sequence of characters.                                 *)
(***************************************************************************)
EXTENDS Integers, Sequences, FiniteSets, TLC

VARIABLES
    \* ---- natural_sort_key / list.sort on a list of names
    names,          \* the list handed to sort(key=natural_sort_key)
    sorted,         \* the list after the sort (<<>> before, or when it raised)
    kpc,            \* "input" | "sorted" | "raised"
    \* ---- resize_and_align_image
    image,          \* <<width, height>> of the source image
    page_size,      \* <<W, H>> of the cell
    rmargin,        \* margin argument
    rlabel,         \* TRUE when a label string is passed, FALSE for None
    label_height,   \* lines 29-33
    new_width,      \* lines 39-44
    new_height,
    paste_position, \* lines 60-63
    rpc,            \* "input" | "resized" | "raised"
    \* ---- images_to_pdf
    listing,        \* os.listdir(directory), in the order the OS returns it
    images_per_page,
    delete_images,
    margin,
    label_images,
    sort_by_time,
    dirFiles,       \* names present in the directory
    tempFiles,      \* n such that temp_page_n.pdf is present
    outputPdf,      \* content of combined_output.pdf: <<"none">>, <<"stale">> or <<"pages", pages>>
    images,         \* line 79, then sorted in place
    i,              \* loop variable of lines 109 and 150
    current_images, \* line 105
    page_number,    \* line 106
    image_counter,  \* line 107
    pdf_merger,     \* pages appended to the PdfMerger, in order
    removedTemps,   \* history: the n for which os.remove(temp_page_n.pdf) ran
    d,              \* position of the deletion loop of line 157
    pc              \* position in images_to_pdf: "start", "loop", "write",
                    \* "cleanup", "delete", "done" (normal end), "returned"
                    \* (line 87) or "raised_..." (an exception ended the run)

keyVars  == <<names, sorted, kpc>>
resVars  == <<image, page_size, rmargin, rlabel, label_height, new_width,
              new_height, paste_position, rpc>>
cfgVars  == <<listing, images_per_page, delete_images, margin, label_images,
              sort_by_time>>
pipeVars == <<dirFiles, tempFiles, outputPdf, images, i, current_images,
              page_number, image_counter, pdf_merger, removedTemps, d, pc>>
vars     == <<keyVars, resVars, cfgVars, pipeVars>>

----------------------------------------------------------------------------
(* Characters and strings                                                  *)

\* The characters of the model, in increasing code point order.
CharOrder ==
    <<".", "0", "1", "2", "A", "G", "J", "P", "_", "a", "b", "c", "d", "e",
      "f", "g", "i", "j", "m", "n", "o", "p", "t", "u", "sup2">>

Chars == {CharOrder[n] : n \in DOMAIN CharOrder}

\* ord(c), up to an order-preserving renumbering.
Ord(c) == CHOOSE n \in DOMAIN CharOrder : CharOrder[n] = c

\* Characters matched by the regular expression \d (Unicode category Nd).
DecimalDigits == {"0", "1", "2"}

\* Characters for which str.isdigit() is true: the decimal digits and the
\* other characters of numeric type Digit, such as U+00B2.
IsDigitChars == DecimalDigits \cup {"sup2"}

DigitValue(c) == CASE c = "0" -> 0 [] c = "1" -> 1 [] c = "2" -> 2

\* str.lower(), character by character.
LowerChar(c) ==
    CASE c = "A" -> "a" [] c = "G" -> "g" [] c = "J" -> "j" [] c = "P" -> "p"
      [] OTHER -> c

Lower(s) == [n \in DOMAIN s |-> LowerChar(s[n])]

\* str.isdigit(): non-empty and every character is a digit character.
IsDigit(s) == Len(s) > 0 /\ \A n \in DOMAIN s : s[n] \in IsDigitChars

\* Python's < on str: lexicographic by code point, a proper prefix is smaller.
RECURSIVE StrLess(_, _)
StrLess(a, b) ==
    IF Len(b) = 0 THEN FALSE
    ELSE IF Len(a) = 0 THEN TRUE
    ELSE IF a[1] # b[1] THEN Ord(a[1]) < Ord(b[1])
    ELSE StrLess(Tail(a), Tail(b))

\* str.endswith(suffix)
EndsWith(s, suf) ==
    /\ Len(suf) <= Len(s)
    /\ SubSeq(s, Len(s) - Len(suf) + 1, Len(s)) = suf

----------------------------------------------------------------------------
(* natural_sort_key, lines 10-13                                           *)

\* re.split('(\d+)', s): the pieces alternate text, digit run, text, ...;
\* the first and the last piece are text (possibly empty).  acc holds the
\* pieces so far; its last piece is a text piece iff Len(acc) is odd.
RECURSIVE SplitFrom(_, _, _)
SplitFrom(s, n, acc) ==
    IF n > Len(s)
    THEN IF Len(acc) % 2 = 0 THEN Append(acc, <<>>) ELSE acc
    ELSE LET c      == s[n]
             inText == Len(acc) % 2 = 1
             extend == [acc EXCEPT ![Len(acc)] = Append(@, c)]
         IN  IF (c \in DecimalDigits) = inText
             THEN SplitFrom(s, n + 1, Append(acc, <<c>>))
             ELSE SplitFrom(s, n + 1, extend)

ReSplit(s) == SplitFrom(s, 1, << <<>> >>)

\* int(text) accepts exactly the runs of decimal digits among the strings
\* that pass isdigit(); on any other it raises ValueError.
IntAccepts(text) == \A n \in DOMAIN text : text[n] \in DecimalDigits

RECURSIVE IntOf(_)
IntOf(text) ==
    IF Len(text) = 0 THEN 0
    ELSE 10 * IntOf(SubSeq(text, 1, Len(text) - 1)) + DigitValue(text[Len(text)])

\* One element of the key: an integer token or a lowercased text token.
Token(text) ==
    IF IsDigit(text)
    THEN [int |-> TRUE, num |-> IntOf(text), txt |-> <<>>]
    ELSE [int |-> FALSE, num |-> 0, txt |-> Lower(text)]

\* natural_sort_key(s): raised is TRUE when int(text) raises ValueError.
natural_sort_key(s) ==
    LET parts == ReSplit(s)
    IN  IF \E n \in DOMAIN parts : IsDigit(parts[n]) /\ ~IntAccepts(parts[n])
        THEN [raised |-> TRUE, key |-> <<>>]
        ELSE [raised |-> FALSE, key |-> [n \in DOMAIN parts |-> Token(parts[n])]]

\* Python's < on two tokens: "TypeError" between an int and a str.
TokenCmp(x, y) ==
    IF x.int # y.int THEN "TypeError"
    ELSE IF x.int THEN (IF x.num < y.num THEN "lt" ELSE IF x.num > y.num THEN "gt" ELSE "eq")
    ELSE IF StrLess(x.txt, y.txt) THEN "lt"
    ELSE IF StrLess(y.txt, x.txt) THEN "gt" ELSE "eq"

\* Python's list comparison: the first index where the elements differ
\* decides (== between an int and a str is False, so they differ); with no
\* such index the shorter list is smaller.
RECURSIVE KeyCmp(_, _)
KeyCmp(a, b) ==
    IF Len(a) = 0 /\ Len(b) = 0 THEN "eq"
    ELSE IF Len(a) = 0 THEN "lt"
    ELSE IF Len(b) = 0 THEN "gt"
    ELSE IF a[1] = b[1] THEN KeyCmp(Tail(a), Tail(b))
    ELSE TokenCmp(a[1], b[1])

\* Stable insertion of x into the sorted list acc: after every element that
\* is not greater than x.  less[u][v] is u < v.
RECURSIVE InsertStable(_, _, _)
InsertStable(x, acc, less) ==
    IF Len(acc) = 0 THEN <<x>>
    ELSE IF less[x][acc[Len(acc)]]
         THEN Append(InsertStable(x, SubSeq(acc, 1, Len(acc) - 1), less), acc[Len(acc)])
         ELSE Append(acc, x)

\* list.sort: stable, ascending.
RECURSIVE StableSort(_, _)
StableSort(xs, less) ==
    IF Len(xs) = 0 THEN <<>>
    ELSE InsertStable(xs[Len(xs)], StableSort(SubSeq(xs, 1, Len(xs) - 1), less), less)

Range(xs) == {xs[n] : n \in DOMAIN xs}

\* key(u) < key(v) for the elements of xs.
NaturalLess(xs) ==
    [u \in Range(xs) |-> [v \in Range(xs) |->
        KeyCmp(natural_sort_key(u).key, natural_sort_key(v).key) = "lt"]]

\* xs.sort(key=natural_sort_key): every key is computed first; a key that
\* raises, or a comparison that raises, aborts the sort.
NaturalSortRaises(xs) ==
    \/ \E n \in DOMAIN xs : natural_sort_key(xs[n]).raised
    \/ \E m, n \in DOMAIN xs :
          KeyCmp(natural_sort_key(xs[m]).key, natural_sort_key(xs[n]).key) = "TypeError"

NaturalSort(xs) == StableSort(xs, NaturalLess(xs))

----------------------------------------------------------------------------
(* Sorting a list of names by natural_sort_key, line 93                    *)

MaxLen == 3

KeyAlphabet == {"a", "A", "0", "1", "2", "sup2"}

Strings == UNION {[1..m -> KeyAlphabet] : m \in 0..MaxLen}

KeyIdle ==
    /\ names = <<>>
    /\ sorted = <<>>
    /\ kpc = "idle"

\* xs.sort(key=natural_sort_key) on the list names.
SortNames ==
    /\ kpc = "input"
    /\ IF NaturalSortRaises(names)
       THEN sorted' = <<>> /\ kpc' = "raised"
       ELSE sorted' = NaturalSort(names) /\ kpc' = "sorted"
    /\ UNCHANGED <<names, resVars, cfgVars, pipeVars>>

----------------------------------------------------------------------------
(* resize_and_align_image, lines 15-68                                     *)

RECURSIVE Gcd(_, _)
Gcd(a, b) == IF b = 0 THEN a ELSE Gcd(b, a % b)

RECURSIVE IsPow2(_)
IsPow2(n) == n = 1 \/ (n > 1 /\ n % 2 = 0 /\ IsPow2(n \div 2))

\* a / b is computed without rounding error in binary floating point (for
\* the small integers of the model) exactly when the reduced denominator is
\* a power of two.
ExactRatio(a, b) == IsPow2(b \div Gcd(a, b))

\* round(n / dd) for dd > 0, where n / dd stands for a float computed from
\* the image ratio.  Off a tie the float error is far too small to matter.
\* On a tie Python rounds half to even when the float is exact; when the
\* ratio was rounded, the float may fall on either side of the tie.
RoundOutcomes(n, dd, exact) ==
    LET f == n \div dd
        r == n % dd
    IN  IF 2 * r < dd THEN {f}
        ELSE IF 2 * r > dd THEN {f + 1}
        ELSE IF exact THEN {IF f % 2 = 0 THEN f ELSE f + 1}
        ELSE {f, f + 1}

\* Lines 29-33: the label's bounding-box height plus 5, or 0 without label.
LabelHeight(hasLabel, bboxHeight) == IF hasLabel THEN bboxHeight + 5 ELSE 0

\* Lines 36-37.
UsableWidth(ps, m) == ps[1] - 2 * m
UsableHeight(ps, m, lh) == ps[2] - 2 * m - lh

\* Lines 18-19 and 39-44: the <<new_width, new_height>> the code computes.
\* img_ratio > page_ratio is image.width * H > W * image.height.
NewSize(img, ps, m, lh) ==
    LET uw    == UsableWidth(ps, m)
        uh    == UsableHeight(ps, m, lh)
        exact == ExactRatio(img[1], img[2])
    IN  IF img[1] * ps[2] > ps[1] * img[2]
        THEN {<<uw, nh>> : nh \in RoundOutcomes(uw * img[2], img[1], exact)}
        ELSE {<<nw, uh>> : nw \in RoundOutcomes(uh * img[1], img[2], exact)}

\* Line 46: Image.resize raises ValueError unless both dimensions are > 0.
ResizeRaises(size) == size[1] < 1 \/ size[2] < 1

\* Lines 60-63.
PastePosition(ps, m, lh, size) == <<(ps[1] - size[1]) \div 2, m + lh>>

MaxImg == 6
MaxCell == 6
MaxMargin == 2
MaxBBox == 1
MaxPerPage == 3

\* Line 8.
A4Width == 595
A4Height == 842

A4_PAGE_SIZE == <<A4Width, A4Height>>

\* Lines 96-100.
PerImagePageSize(k) == <<A4_PAGE_SIZE[1], A4_PAGE_SIZE[2] \div k>>

ImageSizes == ((1..MaxImg) \X (1..MaxImg)) \cup {<<100, 200>>, <<2000, 1>>, A4_PAGE_SIZE}
CellSizes == ((1..MaxCell) \X (1..MaxCell)) \cup {PerImagePageSize(k) : k \in 1..MaxPerPage}
MarginsR == (0..MaxMargin) \cup {10, 100}

ResIdle ==
    /\ image = <<1, 1>>
    /\ page_size = <<1, 1>>
    /\ rmargin = 0
    /\ rlabel = FALSE
    /\ label_height = 0
    /\ new_width = 0
    /\ new_height = 0
    /\ paste_position = <<0, 0>>
    /\ rpc = "idle"

\* One call of resize_and_align_image(image, page_size, rmargin, label).
ResizeAndAlign ==
    /\ rpc = "input"
    /\ \E bh \in 0..MaxBBox :
         LET lh == LabelHeight(rlabel, bh)
         IN  /\ label_height' = lh
             /\ \E size \in NewSize(image, page_size, rmargin, lh) :
                  /\ new_width' = size[1]
                  /\ new_height' = size[2]
                  /\ IF ResizeRaises(size)
                     THEN paste_position' = <<0, 0>> /\ rpc' = "raised"
                     ELSE /\ paste_position' = PastePosition(page_size, rmargin, lh, size)
                          /\ rpc' = "resized"
    /\ UNCHANGED <<image, page_size, rmargin, rlabel, keyVars, cfgVars, pipeVars>>

----------------------------------------------------------------------------
(* images_to_pdf, lines 70-159                                             *)

MaxFiles == 3

\* Filenames the directory may hold.
N_a1  == <<"a", "1", ".", "j", "p", "g">>
N_A2  == <<"A", "2", ".", "J", "P", "G">>
N_a10 == <<"a", "1", "0", ".", "j", "p", "g">>
N_sup == <<"sup2", "1", ".", "p", "n", "g">>

\* Line 145: "combined_output.pdf".
OutputName ==
    <<"c", "o", "m", "b", "i", "n", "e", "d", "_", "o", "u", "t", "p", "u", "t",
      ".", "p", "d", "f">>

\* OutputName is the one name of the pool that is not an image.
NamePool == {N_a1, N_A2, N_a10, N_sup, OutputName}

\* Line 82: the recognized extensions.
Extensions ==
    { <<".", "p", "n", "g">>, <<".", "j", "p", "g">>, <<".", "j", "p", "e", "g">>,
      <<".", "b", "m", "p">>, <<".", "g", "i", "f">>, <<".", "t", "i", "f", "f">> }

\* Line 82: f.lower().endswith((...)).
IsImage(f) == \E ext \in Extensions : EndsWith(Lower(f), ext)

\* Lines 79-83: the comprehension keeps the listing's order.
RECURSIVE Filter(_)
Filter(xs) ==
    IF Len(xs) = 0 THEN <<>>
    ELSE IF IsImage(xs[1]) THEN <<xs[1]>> \o Filter(Tail(xs))
    ELSE Filter(Tail(xs))

\* Line 91: what os.path.getctime may return for the files fs; the files
\* were created one after the other, in any order.
CreationTimes(fs) ==
    {ct \in [fs -> 1..Cardinality(fs)] : \A u, v \in fs : u # v => ct[u] # ct[v]}

\* Line 91: sort(key=getctime), for creation times ct.
TimeSort(xs, ct) ==
    StableSort(xs, [u \in Range(xs) |-> [v \in Range(xs) |-> ct[u] < ct[v]]])

\* Line 126 with the increment lost: every image would be "Question 1".
ImageCounterStuck(counter) == counter

\* Line 126.
NextImageCounter(counter) == counter + 1

\* Lines 115-118: the label of the image, 0 standing for None and n for
\* the string "Question n".
Label(flag, counter) == IF flag THEN counter ELSE 0

\* Line 129 without its second test: a last, partial batch is never saved.
BatchReadyNoRemainder(idx, k, n) == (idx + 1) % k = 0

\* Line 129: the batch is saved after the image at index idx (0-based) of n.
BatchReady(idx, k, n) == (idx + 1) % k = 0 \/ idx = n - 1

\* Lines 131-135 with y_offset advanced before the paste instead of after.
PageCanvasShifted(batch, h) ==
    [n \in DOMAIN batch |->
        [file |-> batch[n].file, label |-> batch[n].label, y |-> n * h]]

\* Lines 131-135: the cells are pasted at y_offset 0, h, 2h, ...
PageCanvas(batch, h) ==
    [n \in DOMAIN batch |->
        [file |-> batch[n].file, label |-> batch[n].label, y |-> (n - 1) * h]]

\* Line 150 as range(1, page_number - 1): the last temporary page is left.
CleanupStopsEarly(idx, pn) == idx < pn - 1

\* Line 150: range(1, page_number).
CleanupContinues(idx, pn) == idx < pn

\* Line 156 with the test of delete_images lost.
AfterCleanupAlwaysDelete(flag) == "delete"

\* Line 156.
AfterCleanup(flag) == IF flag THEN "delete" ELSE "done"

Margins == {0, 10}
PipeImageSizes == {<<100, 200>>, <<2000, 1>>}

Listings ==
    {xs \in UNION {[1..m -> NamePool] : m \in 0..MaxFiles} :
        \A m, n \in DOMAIN xs : m # n => xs[m] # xs[n]}

PipeIdle ==
    /\ listing = <<>>
    /\ images_per_page = 1
    /\ delete_images = FALSE
    /\ margin = 0
    /\ label_images = FALSE
    /\ sort_by_time = FALSE
    /\ dirFiles = {}
    /\ tempFiles = {}
    /\ outputPdf = <<"none">>
    /\ images = <<>>
    /\ i = 0
    /\ current_images = <<>>
    /\ page_number = 0
    /\ image_counter = 0
    /\ pdf_merger = <<>>
    /\ removedTemps = {}
    /\ d = 0
    /\ pc = "idle"

\* The call images_to_pdf(directory, images_per_page, delete_images, margin,
\* label_images, sort_by_time) on a directory whose listing is `listing`.
InitPipe ==
    /\ listing \in Listings
    /\ images_per_page \in 1..MaxPerPage
    /\ delete_images \in BOOLEAN
    /\ margin \in Margins
    /\ label_images \in BOOLEAN
    /\ sort_by_time \in BOOLEAN
    /\ dirFiles = Range(listing)
    /\ tempFiles = {}
    /\ outputPdf = IF OutputName \in Range(listing) THEN <<"stale">> ELSE <<"none">>
    /\ images = <<>>
    /\ i = 0
    /\ current_images = <<>>
    /\ page_number = 0
    /\ image_counter = 0
    /\ pdf_merger = <<>>
    /\ removedTemps = {}
    /\ d = 0
    /\ pc = "start"

\* Lines 85-87 without the return: the run goes on to write an empty document.
EnumerateNoneFallsThrough ==
    /\ pc = "start"
    /\ Filter(listing) = <<>>
    /\ page_number' = 1
    /\ image_counter' = 1
    /\ pc' = "write"
    /\ UNCHANGED <<dirFiles, tempFiles, outputPdf, images, i, current_images,
                   pdf_merger, removedTemps, d>>
    /\ UNCHANGED <<keyVars, resVars, cfgVars>>

\* Lines 79-87: no image found: print and return.
EnumerateNone ==
    /\ pc = "start"
    /\ Filter(listing) = <<>>
    /\ pc' = "returned"
    /\ UNCHANGED <<dirFiles, tempFiles, outputPdf, images, i, current_images,
                   page_number, image_counter, pdf_merger, removedTemps, d>>
    /\ UNCHANGED <<keyVars, resVars, cfgVars>>

\* Lines 79-93: the natural sort raises (ValueError from int()).
SortRaises ==
    /\ pc = "start"
    /\ Filter(listing) # <<>>
    /\ ~sort_by_time
    /\ NaturalSortRaises(Filter(listing))
    /\ images' = Filter(listing)
    /\ pc' = "raised_sort"
    /\ UNCHANGED <<dirFiles, tempFiles, outputPdf, i, current_images,
                   page_number, image_counter, pdf_merger, removedTemps, d>>
    /\ UNCHANGED <<keyVars, resVars, cfgVars>>

\* Lines 79-107: enumerate, sort, and initialise the loop.
Enumerate ==
    /\ pc = "start"
    /\ LET found == Filter(listing)
       IN  /\ found # <<>>
           /\ IF sort_by_time
              THEN \E ct \in CreationTimes(Range(found)) :
                      images' = TimeSort(found, ct)
              ELSE /\ ~NaturalSortRaises(found)
                   /\ images' = NaturalSort(found)
    /\ current_images' = <<>>
    /\ page_number' = 1
    /\ image_counter' = 1
    /\ pdf_merger' = <<>>
    /\ i' = 0
    /\ pc' = "loop"
    /\ UNCHANGED <<dirFiles, tempFiles, outputPdf, removedTemps, d>>
    /\ UNCHANGED <<keyVars, resVars, cfgVars>>

\* Line 111: Image.open or convert raises on a file that cannot be decoded.
DecodeRaises ==
    /\ pc = "loop"
    /\ i < Len(images)
    /\ pc' = "raised_decode"
    /\ UNCHANGED <<dirFiles, tempFiles, outputPdf, images, i, current_images,
                   page_number, image_counter, pdf_merger, removedTemps, d>>
    /\ UNCHANGED <<keyVars, resVars, cfgVars>>

\* Lines 111-124: resize_and_align_image raises at its resize step.
ComposeRaises ==
    /\ pc = "loop"
    /\ i < Len(images)
    /\ \E img \in PipeImageSizes, bh \in 0..MaxBBox :
         \E size \in NewSize(img, PerImagePageSize(images_per_page), margin,
                             LabelHeight(Label(label_images, image_counter) # 0, bh)) :
            ResizeRaises(size)
    /\ pc' = "raised_resize"
    /\ UNCHANGED <<dirFiles, tempFiles, outputPdf, images, i, current_images,
                   page_number, image_counter, pdf_merger, removedTemps, d>>
    /\ UNCHANGED <<keyVars, resVars, cfgVars>>

\* Lines 109-142: one iteration of the loop, for the image at index i
\* (i counts the iterations already made, which is the index of this one).
LoopIter ==
    /\ pc = "loop"
    /\ i < Len(images)
    /\ \E img \in PipeImageSizes, bh \in 0..MaxBBox :
         \E size \in NewSize(img, PerImagePageSize(images_per_page), margin,
                             LabelHeight(Label(label_images, image_counter) # 0, bh)) :
            ~ResizeRaises(size)
    /\ LET cell  == [file |-> images[i + 1],
                     label |-> Label(label_images, image_counter)]
           batch == Append(current_images, cell)
           h     == PerImagePageSize(images_per_page)[2]
       IN  IF BatchReady(i, images_per_page, Len(images))
           THEN /\ tempFiles' = tempFiles \cup {page_number}
                /\ pdf_merger' = Append(pdf_merger,
                                        [number |-> page_number,
                                         cells |-> PageCanvas(batch, h)])
                /\ current_images' = <<>>
                /\ page_number' = page_number + 1
           ELSE /\ current_images' = batch
                /\ UNCHANGED <<tempFiles, pdf_merger, page_number>>
    /\ image_counter' = NextImageCounter(image_counter)
    /\ i' = i + 1
    /\ pc' = IF i + 1 = Len(images) THEN "write" ELSE "loop"
    /\ UNCHANGED <<dirFiles, outputPdf, images, removedTemps, d>>
    /\ UNCHANGED <<keyVars, resVars, cfgVars>>

\* Lines 145-147: write the merged document, overwriting an existing one.
WriteOutput ==
    /\ pc = "write"
    /\ outputPdf' = <<"pages", pdf_merger>>
    /\ dirFiles' = dirFiles \cup {OutputName}
    /\ i' = 1
    /\ pc' = "cleanup"
    /\ UNCHANGED <<tempFiles, images, current_images, page_number,
                   image_counter, pdf_merger, removedTemps, d>>
    /\ UNCHANGED <<keyVars, resVars, cfgVars>>

\* Lines 150-151: os.remove(temp_page_i.pdf); it raises on a missing file.
CleanupTemp ==
    /\ pc = "cleanup"
    /\ CleanupContinues(i, page_number)
    /\ IF i \in tempFiles
       THEN /\ tempFiles' = tempFiles \ {i}
            /\ i' = i + 1
            /\ pc' = "cleanup"
       ELSE /\ pc' = "raised_remove"
            /\ UNCHANGED <<tempFiles, i>>
    /\ removedTemps' = removedTemps \cup {i}
    /\ UNCHANGED <<dirFiles, outputPdf, images, current_images, page_number,
                   image_counter, pdf_merger, d>>
    /\ UNCHANGED <<keyVars, resVars, cfgVars>>

\* Lines 153-156: the cleanup loop is over.
CleanupDone ==
    /\ pc = "cleanup"
    /\ ~CleanupContinues(i, page_number)
    /\ d' = 1
    /\ pc' = AfterCleanup(delete_images)
    /\ UNCHANGED <<dirFiles, tempFiles, outputPdf, images, i, current_images,
                   page_number, image_counter, pdf_merger, removedTemps>>
    /\ UNCHANGED <<keyVars, resVars, cfgVars>>

\* Lines 157-158: os.remove(os.path.join(directory, img_file)).
DeleteImage ==
    /\ pc = "delete"
    /\ d <= Len(images)
    /\ dirFiles' = dirFiles \ {images[d]}
    /\ d' = d + 1
    /\ UNCHANGED <<tempFiles, outputPdf, images, i, current_images, page_number,
                   image_counter, pdf_merger, removedTemps, pc>>
    /\ UNCHANGED <<keyVars, resVars, cfgVars>>

\* Line 159.
DeleteDone ==
    /\ pc = "delete"
    /\ d > Len(images)
    /\ pc' = "done"
    /\ UNCHANGED <<dirFiles, tempFiles, outputPdf, images, i, current_images,
                   page_number, image_counter, pdf_merger, removedTemps, d>>
    /\ UNCHANGED <<keyVars, resVars, cfgVars>>

----------------------------------------------------------------------------
(* Specifications                                                          *)

Init == InitPipe /\ KeyIdle /\ ResIdle

Next ==
    \/ EnumerateNone
    \/ SortRaises
    \/ Enumerate
    \/ DecodeRaises
    \/ ComposeRaises
    \/ LoopIter
    \/ WriteOutput
    \/ CleanupTemp
    \/ CleanupDone
    \/ DeleteImage
    \/ DeleteDone

Spec == Init /\ [][Next]_vars

\* natural_sort_key applied to every pair of short strings.
InitKey ==
    /\ names \in Strings \X Strings
    /\ sorted = <<>>
    /\ kpc = "input"
    /\ ResIdle
    /\ PipeIdle

NextKey == SortNames

SpecKey == InitKey /\ [][NextKey]_vars

\* resize_and_align_image applied to small images, cells and margins.
InitResize ==
    /\ image \in ImageSizes
    /\ page_size \in CellSizes
    /\ rmargin \in MarginsR
    /\ rlabel \in BOOLEAN
    /\ label_height = 0
    /\ new_width = 0
    /\ new_height = 0
    /\ paste_position = <<0, 0>>
    /\ rpc = "input"
    /\ KeyIdle
    /\ PipeIdle

NextResize == ResizeAndAlign

SpecResize == InitResize /\ [][NextResize]_vars

----------------------------------------------------------------------------
(* Properties of images_to_pdf, under Spec                                 *)

\* The loop of lines 109-142 has run to its end.
AfterLoop == pc \in {"write", "cleanup", "delete", "done"}

Ceil(n, k) == (n + k - 1) \div k

RECURSIVE CellCount(_)
CellCount(pages) ==
    IF Len(pages) = 0 THEN 0 ELSE Len(pages[1].cells) + CellCount(Tail(pages))

\* C1: a run that gets through the loop has appended exactly ceil(N/k)
\* pages for N images and images_per_page = k; during the loop one page has
\* been appended per k images handled; no page is empty, and the pages are
\* numbered 1, 2, ... so none is emitted twice.  The document written is
\* the merged one.
C1_PageCount ==
    /\ pc = "loop" => Len(pdf_merger) = i \div images_per_page
    /\ AfterLoop => Len(pdf_merger) = Ceil(Len(images), images_per_page)
    /\ \A p \in DOMAIN pdf_merger :
          /\ pdf_merger[p].number = p
          /\ Len(pdf_merger[p].cells) >= 1
    /\ pc = "done" => outputPdf = <<"pages", pdf_merger>>

\* A successful run in which images_per_page >= 2 divides the image count.
C1_Witness ==
    /\ pc = "done"
    /\ images_per_page >= 2
    /\ Len(images) % images_per_page = 0
    /\ Len(outputPdf[2]) = Len(images) \div images_per_page

\* C2: with delete_images, a successful run ends with every enumerated
\* image gone from the directory; an image is missing from the directory
\* only when delete_images is set and combined_output.pdf already holds the
\* whole merged document; the document is still there at the end; without
\* delete_images every enumerated image stays.
C2_DeleteAfterWrite ==
    /\ (pc = "done" /\ delete_images) =>
          \A n \in DOMAIN images : images[n] \notin dirFiles
    /\ (\E n \in DOMAIN listing : listing[n] \notin dirFiles /\ IsImage(listing[n])) =>
          /\ delete_images
          /\ pc \in {"delete", "done"}
          /\ OutputName \in dirFiles
          /\ outputPdf = <<"pages", pdf_merger>>
          /\ Len(pdf_merger) = Ceil(Len(images), images_per_page)
    /\ pc = "done" =>
          /\ OutputName \in dirFiles
          /\ outputPdf = <<"pages", pdf_merger>>

\* A successful run with delete_images that removed at least two images.
C2_Witness ==
    /\ pc = "done"
    /\ delete_images
    /\ Len(images) >= 2
    /\ \A n \in DOMAIN images : images[n] \notin dirFiles
    /\ OutputName \in dirFiles

\* C3: when no listed file is an image, the call returns at line 87 and the
\* file system is as it was: the same directory content, combined_output.pdf
\* neither created nor rewritten, no temporary page created or removed.
C3_NoImagesNoEffect ==
    (pc # "start" /\ \A n \in DOMAIN listing : ~IsImage(listing[n])) =>
        /\ pc = "returned"
        /\ dirFiles = Range(listing)
        /\ outputPdf = IF OutputName \in Range(listing) THEN <<"stale">> ELSE <<"none">>
        /\ tempFiles = {}
        /\ removedTemps = {}

\* The call returned on a directory that holds a combined_output.pdf and no
\* image, with delete_images set.
C3_Witness ==
    /\ pc = "returned"
    /\ delete_images
    /\ listing = <<OutputName>>
    /\ outputPdf = <<"stale">>

\* <<file, label>> of every cell composed so far, pasted on a page or
\* pending in the batch.
ComposedCells ==
    UNION {{<<pdf_merger[p].cells[n].file, pdf_merger[p].cells[n].label>> :
               n \in DOMAIN pdf_merger[p].cells} : p \in DOMAIN pdf_merger}
    \cup {<<current_images[n].file, current_images[n].label>> :
             n \in DOMAIN current_images}

\* C6: with label_images, the image at position n of the sorted order
\* (from 1) carries the label "Question n", whatever images_per_page is;
\* the counter is one more than the number of images handled; without
\* label_images no cell carries a label.
C6_Labels ==
    /\ \A c \in ComposedCells :
          \E n \in DOMAIN images :
             /\ images[n] = c[1]
             /\ c[2] = IF label_images THEN n ELSE 0
    /\ pc = "loop" => image_counter = i + 1
    /\ AfterLoop => \A n \in DOMAIN images : \E c \in ComposedCells : c[1] = images[n]

\* A successful labelled run of three images, two per page: the first image
\* of the second page is "Question 3".
C6_Witness ==
    /\ pc = "done"
    /\ label_images
    /\ images_per_page = 2
    /\ Len(images) = 3
    /\ Len(pdf_merger) = 2
    /\ pdf_merger[2].cells[1].label = 3

\* C8: after the loop the image at 0-based position idx of the sorted order
\* is on page floor(idx/k) (from 0) in slot idx mod k at y-offset
\* (idx mod k) * floor(842/k), inside the page; there are as many cells as
\* images; the pending batch holds i mod k cells during the loop, so it is
\* empty at the start of every page group, and it is empty after the loop.
C8_Placement ==
    /\ AfterLoop =>
          /\ CellCount(pdf_merger) = Len(images)
          /\ current_images = <<>>
          /\ \A idx \in 0..(Len(images) - 1) :
                LET p == (idx \div images_per_page) + 1
                    n == (idx % images_per_page) + 1
                    h == A4Height \div images_per_page
                IN  /\ p \in DOMAIN pdf_merger
                    /\ n \in DOMAIN pdf_merger[p].cells
                    /\ pdf_merger[p].cells[n].file = images[idx + 1]
                    /\ pdf_merger[p].cells[n].y = (idx % images_per_page) * h
                    /\ pdf_merger[p].cells[n].y + h <= A4Height
    /\ pc = "loop" => Len(current_images) = i % images_per_page

\* A successful run of three images, two per page.
C8_Witness ==
    /\ pc = "done"
    /\ images_per_page = 2
    /\ Len(images) = 3
    /\ Len(pdf_merger) = 2
    /\ pdf_merger[1].cells[2].file = images[2]
    /\ pdf_merger[1].cells[2].y = 421
    /\ pdf_merger[2].cells[1].file = images[3]

\* The temporary pages created so far.
CreatedTemps == {pdf_merger[p].number : p \in DOMAIN pdf_merger}

\* C9: a successful run has removed exactly the temporary pages it created,
\* temp_page_1.pdf .. temp_page_P.pdf, and none remains; a removal happens
\* only once the merged document is written, and only on a page that was
\* created (os.remove never raises).
C9_TempCleanup ==
    /\ pc \in {"delete", "done"} =>
          /\ removedTemps = CreatedTemps
          /\ removedTemps = 1..Len(pdf_merger)
          /\ tempFiles = {}
    /\ removedTemps # {} =>
          /\ outputPdf = <<"pages", pdf_merger>>
          /\ OutputName \in dirFiles
    /\ removedTemps \subseteq CreatedTemps
    /\ pc # "raised_remove"

\* A successful run that created and removed at least two temporary pages.
C9_Witness ==
    /\ pc = "done"
    /\ Len(pdf_merger) >= 2
    /\ removedTemps = 1..Len(pdf_merger)
    /\ tempFiles = {}

----------------------------------------------------------------------------
(* Properties of natural_sort_key, under SpecKey                           *)

AllDecimal(t) == Len(t) > 0 /\ \A n \in DOMAIN t : t[n] \in DecimalDigits

\* x and y share the text before and after one digit run and differ only
\* in that run, whose value is smaller in x.
DifferInOneRun(x, y) ==
    \E a \in 0..Len(x) : \E b \in (a + 1)..Len(x) : \E c \in (a + 1)..Len(y) :
        /\ a <= Len(y)
        /\ SubSeq(x, 1, a) = SubSeq(y, 1, a)
        /\ SubSeq(x, b + 1, Len(x)) = SubSeq(y, c + 1, Len(y))
        /\ AllDecimal(SubSeq(x, a + 1, b))
        /\ AllDecimal(SubSeq(y, a + 1, c))
        /\ a > 0 => x[a] \notin DecimalDigits
        /\ b < Len(x) => x[b + 1] \notin DecimalDigits
        /\ IntOf(SubSeq(x, a + 1, b)) < IntOf(SubSeq(y, a + 1, c))

\* C4: of two names that differ only in one digit run, the sort by
\* natural_sort_key puts the one with the smaller number first, in
\* whichever order they were given.
C4_NumericOrder ==
    kpc # "input" =>
        \A m, n \in DOMAIN names :
            DifferInOneRun(names[m], names[n]) =>
                /\ kpc = "sorted"
                /\ sorted = <<names[m], names[n]>>

\* The same order on the names whose keys exist: whenever the sort did not
\* raise, the smaller number comes first.
NumericOrderWhenSorted ==
    kpc = "sorted" =>
        \A m, n \in DOMAIN names :
            DifferInOneRun(names[m], names[n]) => sorted = <<names[m], names[n]>>

\* C10: for any two strings the keys exist and agree in kind index by
\* index, text at the even indexes (from 0) and integers at the odd ones,
\* so that no comparison meets an integer and a text, and the sort does
\* not fail.
C10_KeysComparable ==
    kpc # "input" =>
        /\ kpc = "sorted"
        /\ \A m \in DOMAIN names :
              LET k == natural_sort_key(names[m])
              IN  /\ ~k.raised
                  /\ \A n \in DOMAIN k.key : k.key[n].int = (n % 2 = 0)

----------------------------------------------------------------------------
(* Properties of resize_and_align_image, under SpecResize                  *)

Computed == rpc \in {"resized", "raised"}

Min(a, b) == IF a < b THEN a ELSE b

\* C5: the computed size never exceeds the usable area
\* (W - 2m, H - 2m - label_height).  It is stated of the calls whose resize
\* step succeeds, the ones that produce a resized image at all.
C5_WithinUsable ==
    rpc = "resized" =>
        /\ new_width <= UsableWidth(page_size, rmargin)
        /\ new_height <= UsableHeight(page_size, rmargin, label_height)

\* C7: when 0 <= m < min(W, H) / 2, both dimensions handed to the resize
\* step are at least 1.
C7_AtLeastOnePixel ==
    (Computed /\ 2 * rmargin < Min(page_size[1], page_size[2])) =>
        /\ new_width >= 1
        /\ new_height >= 1

====
